---- MODULE Spec2Model ----
(***************************************************************************)
(* Session lifecycle of the streamable-HTTP MCP front end                  *)
(* (packages/mcp/src/http-server.ts as carried in oauth-middleware.ts,     *)
(* lines 149-485) behind the OAuth gate (salesforceOAuthMiddleware).       *)
(*                                                                         *)
(* The four registry maps are module-level Maps keyed by session id.  The  *)
(* transport and the server stored under an id are created for that id     *)
(* alone, so transports and mcpServers are modelled by their key sets;     *)
(* sseStreams and sessionActivity keep their values.  Everything between   *)
(* two awaits of a handler is one action (single-threaded event loop).     *)
(*                                                                         *)
(* Spec is the session registry under requests, callbacks and the timer.   *)
(* ExchangeSpec follows one request through the gate to the reply this     *)
(* layer writes for it; ResolverSpec follows getAuthContext, the resolver   *)
(* the tools call (auth-context helper, carried in src/unnamed/part_000).  *)
(***************************************************************************)
EXTENDS Integers, Sequences, FiniteSets, TLC

\* ---------------------------------------------------------------- bounds
MaxSessions == 1    \* transports ever created (randomUUID never repeats)
MaxStreams  == 2    \* GET response objects ever accepted for a session
MaxClock    == 2    \* clock readings kept apart, in steps of ClockStepMs
MaxResolves == 2    \* getAuthContext calls made one after the other

\* ------------------------------------------------------------- constants
sessionTtlMs == 5 * 60 * 1000
\* Date.now() is read in steps of one TTL: 0, TTL, 2*TTL cover the three
\* cases of line 461 (younger than, exactly, older than the TTL).
ClockStepMs == sessionTtlMs
\* Mutant: 'tools/call' is exempt from authentication as well.
skipAuthMethodsWithToolsCall == {"ping", "initialize", "tools/call"}
skipAuthMethods == {"ping", "initialize"}

\* undefined, for a value that is a string otherwise (RPC method, request id)
Undef == "undefined"
SessionIds == 1..MaxSessions
StreamIds == 1..MaxStreams
Times == {k * ClockStepMs : k \in 0..MaxClock}

\* ------------------------------------------------------------- strings
\* A JavaScript string is a sequence of one-character strings.
BearerPrefix == <<"B", "e", "a", "r", "e", "r", " ">>
startsWith(s, p) == Len(s) >= Len(p) /\ SubSeq(s, 1, Len(p)) = p
substring(s, n) == IF n >= Len(s) THEN <<>> ELSE SubSeq(s, n + 1, Len(s))
RECURSIVE trimStart(_)
trimStart(s) == IF s # <<>> /\ Head(s) = " " THEN trimStart(Tail(s)) ELSE s
RECURSIVE trimEnd(_)
trimEnd(s) ==
  IF s # <<>> /\ s[Len(s)] = " " THEN trimEnd(SubSeq(s, 1, Len(s) - 1)) ELSE s
trim(s) == trimEnd(trimStart(s))

\* A header value (string | string[] | undefined) is a tagged record; v is
\* the string, or the list of strings.
HUndef == [t |-> "undefined", v |-> <<>>]
HStr(s) == [t |-> "string", v |-> s]
HArr(a) == [t |-> "array", v |-> a]
\* !value: undefined and the empty string are falsy, an array never is.
Falsy(value) == value.t = "undefined" \/ (value.t = "string" /\ value.v = <<>>)
\* Mutant: the last element of an array is returned, not value[0].
getHeaderValueLast(headers, name) ==
  LET value == IF name \in DOMAIN headers THEN headers[name] ELSE HUndef IN
  IF Falsy(value) THEN HUndef
  ELSE IF value.t = "array"
       THEN (IF value.v = <<>> THEN HUndef ELSE HStr(value.v[Len(value.v)]))
       ELSE value
\* getHeaderValue: value[0] of an empty array is undefined.
getHeaderValue(headers, name) ==
  LET value == IF name \in DOMAIN headers THEN headers[name] ELSE HUndef IN
  IF Falsy(value) THEN HUndef
  ELSE IF value.t = "array"
       THEN (IF value.v = <<>> THEN HUndef ELSE HStr(value.v[1]))
       ELSE value

\* ------------------------------------------------------------ responses
MissingAuthorization ==
  [status |-> 401, code |-> -32000,
   message |-> "Missing Authorization header. Please authenticate with Salesforce."]
InvalidAuthorizationFormat ==
  [status |-> 401, code |-> -32000,
   message |-> "Invalid Authorization header format. Expected \"Bearer <token>\"."]
EmptyAccessToken ==
  [status |-> 401, code |-> -32000, message |-> "Empty access token"]
SessionRequired ==
  [status |-> 400, code |-> -32000,
   message |-> "Initialize request required to create session"]
InvalidSession ==
  [status |-> 400, code |-> -32000, message |-> "Invalid or missing session ID"]
InternalError ==
  [status |-> 500, code |-> -32603, message |-> "Internal error"]
\* No response written by this layer: the request went on (next(), or the
\* transport answers it).
Passed == [status |-> 0, code |-> 0, message |-> ""]

\* ---------------------------------------------------------------- gate
\* A request: method (HTTP), sid (the mcp-session-id header, 0 when the
\* header is absent or empty: both are falsy at lines 266 and 269), body
\* (present: express.json() produced an object; method: its RPC method) and
\* headers.
\* req.body?.method: undefined when there is no body or no method in it.
bodyMethod(req) == IF req.body.present THEN req.body.method ELSE Undef

\* Mutant: the scheme is compared without the trailing blank
\* (startsWith('Bearer')).
salesforceOAuthMiddlewareLoosePrefix(req) ==
  IF req.method = "GET" THEN Passed
  ELSE IF bodyMethod(req) \in skipAuthMethods THEN Passed
  ELSE LET authHeader == getHeaderValue(req.headers, "authorization") IN
       IF Falsy(authHeader) THEN MissingAuthorization
       ELSE IF ~startsWith(authHeader.v, <<"B", "e", "a", "r", "e", "r">>)
            THEN InvalidAuthorizationFormat
       ELSE IF trim(substring(authHeader.v, 7)) = <<>> THEN EmptyAccessToken
       ELSE Passed

\* salesforceOAuthMiddleware: Passed stands for next().
salesforceOAuthMiddleware(req) ==
  IF req.method = "GET" THEN Passed
  ELSE IF bodyMethod(req) \in skipAuthMethods THEN Passed
  ELSE LET authHeader == getHeaderValue(req.headers, "authorization") IN
       IF Falsy(authHeader) THEN MissingAuthorization
       ELSE IF ~startsWith(authHeader.v, BearerPrefix)
            THEN InvalidAuthorizationFormat
       ELSE IF trim(substring(authHeader.v, 7)) = <<>> THEN EmptyAccessToken
       ELSE Passed

\* ------------------------------------------------------------- registry
VARIABLES
  transports,       \* keys of the Map transports (line 180)
  mcpServers,       \* keys of the Map mcpServers (line 181)
  sseStreams,       \* Map session id -> response object of its SSE stream
  sessionActivity,  \* Map session id -> Date.now() of its last activity
  now,              \* Date.now()
  created,          \* transports constructed so far; the next one gets id created+1
  opened,           \* GET response objects tracked so far
  handshake,        \* per transport: where its onsessioninitialized callback is
  closeListeners,   \* response object -> session id captured by its 'close' handler
  inFlight,         \* session ids with a POST suspended in transport.handleRequest
  closing,          \* session ids whose transport was handed a DELETE
  origin,           \* per transport: the request that constructed it
  released,         \* per session id: destroy runs that removed its transport or server
  destroyed,        \* session ids a destroy trigger has run for
  last,             \* what the latest step was and how it was answered
  request,          \* the request one exchange is followed for (req)
  stage,            \* where that exchange is between the gate and the transport
  reply,            \* the response body this layer wrote for it (res.json)
  salesforceAuth,   \* req.salesforceAuth, the context the gate attached
  resolution        \* the getAuthContext call a tool handler is making

vars == <<transports, mcpServers, sseStreams, sessionActivity, now, created,
          opened, handshake, closeListeners, inFlight, closing, origin,
          released, destroyed, last, request, stage, reply, salesforceAuth,
          resolution>>
\* The variables of the session registry, and those of one followed exchange.
lifecycleVars ==
  <<transports, mcpServers, sseStreams, sessionActivity, now, created,
    opened, handshake, closeListeners, inFlight, closing, origin,
    released, destroyed, last>>
exchangeVars == <<request, stage, reply, salesforceAuth>>

\* Map operations
MapSet(m, k, v) == [x \in DOMAIN m \cup {k} |-> IF x = k THEN v ELSE m[x]]
MapDelete(m, k) == [x \in DOMAIN m \ {k} |-> m[x]]
MapDeleteAll(m, ks) == [x \in DOMAIN m \ ks |-> m[x]]
EmptyMap == [x \in {} |-> 0]

\* The four maps as one value, so that a handler's effect is an operator.
Registry ==
  [transports |-> transports, mcpServers |-> mcpServers,
   sseStreams |-> sseStreams, sessionActivity |-> sessionActivity]
Known(r, id) ==
  \/ id \in r.transports
  \/ id \in r.mcpServers
  \/ id \in DOMAIN r.sseStreams
  \/ id \in DOMAIN r.sessionActivity
SetRegistry(r) ==
  /\ transports' = r.transports
  /\ mcpServers' = r.mcpServers
  /\ sseStreams' = r.sseStreams
  /\ sessionActivity' = r.sessionActivity

NoLast ==
  [op |-> "start", at |-> "start", sid |-> 0, res |-> Passed,
   threw |-> {}, bp |-> {}, pruned |-> {}, reported |-> {}]
Answer(req, at, res) ==
  [NoLast EXCEPT !.op = req.method, !.at = at, !.sid = req.sid, !.res = res]
Event(op, sid) == [NoLast EXCEPT !.op = op, !.at = "callback", !.sid = sid]

\* Requests drawn for every step.
RpcMethods == {"initialize", "ping", "tools/call", Undef}
\* Session ids a request may carry: none (0), the ids transports generate,
\* and one id that no transport ever generates.
UnknownSid == MaxSessions + 1
RequestSids == 0..UnknownSid
AllSids == 1..UnknownSid
AuthorizationValues ==
  { HUndef, HStr(<<"B", "e", "a", "r", "e", "r", " ", "t">>) }
Bodies ==
  {[present |-> FALSE, method |-> Undef]}
    \cup [present : {TRUE}, method : RpcMethods]
Requests ==
  [method : {"GET", "POST", "DELETE"}, sid : RequestSids, body : Bodies,
   headers : [authorization : AuthorizationValues]]

\* No exchange is followed, no getAuthContext call is being made.
NoAuth == [attached |-> FALSE, accessToken |-> <<>>, instanceUrl |-> HUndef]
NoReply ==
  [status |-> 0, code |-> 0, message |-> "", id |-> Undef, data |-> Undef]
\* Where an exchange is, the error thrown in it and whether the response
\* headers were on the wire when it was thrown (res.headersSent).
StageAt(at) == [at |-> at, error |-> Undef, headersSent |-> FALSE]
NoExchange ==
  /\ request = [method |-> "none"]
  /\ stage = StageAt("idle")
  /\ reply = NoReply
  /\ salesforceAuth = NoAuth
NoResolution == [pc |-> "idle"]

Init ==
  /\ transports = {}
  /\ mcpServers = {}
  /\ sseStreams = EmptyMap
  /\ sessionActivity = EmptyMap
  /\ now = 0
  /\ created = 0
  /\ opened = 0
  /\ handshake = [id \in SessionIds |-> "none"]
  /\ closeListeners = EmptyMap
  /\ inFlight = {}
  /\ closing = {}
  /\ origin = EmptyMap
  /\ released = [id \in AllSids |-> 0]
  /\ destroyed = {}
  /\ last = NoLast
  /\ NoExchange
  /\ resolution = NoResolution

\* ------------------------------------------------- app.all('/mcp', ...)
\* Mutant: any POST without a session id constructs a transport (the test
\* of body.method at 273 is lost).
sessionResolutionAnyPost(r, req) ==
  IF req.sid = 0 /\ req.method = "POST"
  THEN IF ~req.body.present THEN "TypeError" ELSE "new"
  ELSE IF req.sid = 0 \/ req.sid \notin r.transports THEN "InvalidSession"
  ELSE "existing"

\* Mutant: a POST without a session id that is no initialize falls through
\* to the lookup failure (the else branch of 311 is lost).
sessionResolutionNoElse(r, req) ==
  IF req.sid = 0 /\ req.method = "POST" /\ ~req.body.present THEN "TypeError"
  ELSE IF req.sid = 0 /\ req.method = "POST" /\ req.body.method = "initialize"
  THEN "new"
  ELSE IF req.sid = 0 \/ req.sid \notin r.transports THEN "InvalidSession"
  ELSE "existing"

\* Mutant: an initialize POST constructs a transport whenever the lookup
\* found none, also when it carried a session id (269 tests !transport).
sessionResolutionStaleInitialize(r, req) ==
  IF (req.sid = 0 \/ req.sid \notin r.transports) /\ req.method = "POST"
  THEN IF ~req.body.present THEN "TypeError"
       ELSE IF req.body.method = "initialize" THEN "new"
       ELSE IF req.sid = 0 THEN "SessionRequired" ELSE "InvalidSession"
  ELSE IF req.sid = 0 \/ req.sid \notin r.transports THEN "InvalidSession"
  ELSE "existing"

\* Lines 266-336: which branch a request that passed the gate takes.
\*   "new"             a transport is constructed (275)
\*   "SessionRequired" answered at 313
\*   "InvalidSession"  answered at 327
\*   "existing"        transports.get found the session
\*   "TypeError"       body.method read from an undefined body (273)
sessionResolution(r, req) ==
  IF req.sid = 0 /\ req.method = "POST"
  THEN IF ~req.body.present THEN "TypeError"
       ELSE IF req.body.method = "initialize" THEN "new"
       ELSE "SessionRequired"
  ELSE IF req.sid = 0 \/ req.sid \notin r.transports THEN "InvalidSession"
  ELSE "existing"

\* Lines 339-350: a POST to an existing session is recorded as activity
\* inside the branch that logs RPC method calls.
postActivity(r, req, t) ==
  IF bodyMethod(req) # Undef
  THEN [r EXCEPT !.sessionActivity = MapSet(@, req.sid, t)]
  ELSE r

\* Lines 351-356: a GET tracks its response object and is activity.
getTracking(r, req, stream, t) ==
  [r EXCEPT !.sseStreams = MapSet(@, req.sid, stream),
            !.sessionActivity = MapSet(@, req.sid, t)]

\* Mutant: the DELETE cleanup without transports.delete.
deleteCleanupKeepsTransport(r, sid) ==
  [transports |-> r.transports,
   mcpServers |-> r.mcpServers \ {sid},
   sseStreams |-> MapDelete(r.sseStreams, sid),
   sessionActivity |-> MapDelete(r.sessionActivity, sid)]

\* Mutant: the DELETE cleanup without mcpServers.delete.
deleteCleanupKeepsServer(r, sid) ==
  [transports |-> r.transports \ {sid},
   mcpServers |-> r.mcpServers,
   sseStreams |-> MapDelete(r.sseStreams, sid),
   sessionActivity |-> MapDelete(r.sessionActivity, sid)]

\* Lines 378-385: cleanup on DELETE.
deleteCleanup(r, sid) ==
  [transports |-> r.transports \ {sid},
   mcpServers |-> r.mcpServers \ {sid},
   sseStreams |-> MapDelete(r.sseStreams, sid),
   sessionActivity |-> MapDelete(r.sessionActivity, sid)]

\* Mutant: the 'close' handler stamps the session as expired
\* (sessionActivity.set(sessionId, 0)) where it should delete the stamp.
closeCleanupStampsActivity(r, sid) ==
  [transports |-> r.transports \ {sid},
   mcpServers |-> r.mcpServers \ {sid},
   sseStreams |-> MapDelete(r.sseStreams, sid),
   sessionActivity |-> MapSet(r.sessionActivity, sid, 0)]

\* Lines 357-373: the 'close' handler of a tracked response object.
closeCleanup(r, sid) ==
  [transports |-> r.transports \ {sid},
   mcpServers |-> r.mcpServers \ {sid},
   sseStreams |-> MapDelete(r.sseStreams, sid),
   sessionActivity |-> MapDelete(r.sessionActivity, sid)]

\* Lines 303-309: onsessionclosed.
sessionClosedCleanup(r, sid) ==
  [transports |-> r.transports \ {sid},
   mcpServers |-> r.mcpServers \ {sid},
   sseStreams |-> MapDelete(r.sseStreams, sid),
   sessionActivity |-> MapDelete(r.sessionActivity, sid)]

\* Mutant: the transport is registered without its server
\* (mcpServers.set at 295 is lost).
registerSessionWithoutServer(r, id, t) ==
  [r EXCEPT !.transports = @ \cup {id},
            !.sessionActivity = MapSet(@, id, t)]

\* Lines 295-297: the registrations of onsessioninitialized.
registerSession(r, id, t) ==
  [r EXCEPT !.mcpServers = @ \cup {id},
            !.transports = @ \cup {id},
            !.sessionActivity = MapSet(@, id, t)]

\* A destroy run for id counts as a release when it removed the transport
\* or the server (hadTransport || hadServer).
Release(r, ids) ==
  [id \in AllSids |->
     IF id \in ids /\ (id \in r.transports \/ id \in r.mcpServers)
     THEN released[id] + 1 ELSE released[id]]

\* Mutant: the activity of the session a request names is recorded before
\* the gate examines the request.
GateRejectAfterTouch(req) ==
  /\ salesforceOAuthMiddleware(req) # Passed
  /\ last' = Answer(req, "gate", salesforceOAuthMiddleware(req))
  /\ sessionActivity' = IF req.sid \in transports
                         THEN MapSet(sessionActivity, req.sid, now)
                         ELSE sessionActivity
  /\ UNCHANGED <<transports, mcpServers, sseStreams, now,
                 created, opened, handshake, closeListeners, inFlight,
                 closing, origin, released, destroyed>>
  /\ UNCHANGED <<exchangeVars, resolution>>

\* The request is stopped by the gate (lines 72-112): the /mcp handler
\* never runs.
GateReject(req) ==
  /\ salesforceOAuthMiddleware(req) # Passed
  /\ last' = Answer(req, "gate", salesforceOAuthMiddleware(req))
  /\ UNCHANGED <<transports, mcpServers, sseStreams, sessionActivity, now,
                 created, opened, handshake, closeListeners, inFlight,
                 closing, origin, released, destroyed>>
  /\ UNCHANGED <<exchangeVars, resolution>>

\* Lines 311-336 and the catch at 395-408: the request is answered by the
\* handler without reaching a transport.
ResolveReject(req) ==
  /\ salesforceOAuthMiddleware(req) = Passed
  /\ LET how == sessionResolution(Registry, req) IN
     /\ how \in {"SessionRequired", "InvalidSession", "TypeError"}
     /\ last' = Answer(req, "resolve",
                       CASE how = "SessionRequired" -> SessionRequired
                         [] how = "InvalidSession" -> InvalidSession
                         [] OTHER -> InternalError)
  /\ UNCHANGED <<transports, mcpServers, sseStreams, sessionActivity, now,
                 created, opened, handshake, closeListeners, inFlight,
                 closing, origin, released, destroyed>>
  /\ UNCHANGED <<exchangeVars, resolution>>

\* Lines 273-310, 339-350, 393: a transport is constructed and handed the
\* initialize request; it generates its session id and calls
\* onsessioninitialized, which suspends at its first await (281).
NewSession(req) ==
  /\ salesforceOAuthMiddleware(req) = Passed
  /\ sessionResolution(Registry, req) = "new"
  /\ created < MaxSessions
  /\ created' = created + 1
  /\ handshake' = [handshake EXCEPT ![created + 1] = "creating"]
  /\ origin' = MapSet(origin, created + 1,
                      [method |-> req.method, rpc |-> bodyMethod(req),
                       sid |-> req.sid])
  /\ last' = Answer(req, "handleRequest", Passed)
  /\ UNCHANGED <<transports, mcpServers, sseStreams, sessionActivity, now,
                 opened, closeListeners, inFlight, closing, released,
                 destroyed>>
  /\ UNCHANGED <<exchangeVars, resolution>>

\* Lines 339-350, 393: POST to an existing session.
PostExisting(req) ==
  /\ salesforceOAuthMiddleware(req) = Passed
  /\ sessionResolution(Registry, req) = "existing"
  /\ req.method = "POST"
  /\ SetRegistry(postActivity(Registry, req, now))
  /\ inFlight' = inFlight \cup {req.sid}
  /\ last' = Answer(req, "handleRequest", Passed)
  /\ UNCHANGED <<now, created, opened, handshake, closeListeners, closing,
                 origin, released, destroyed>>
  /\ UNCHANGED <<exchangeVars, resolution>>

\* Lines 351-374, 393: GET to an existing session opens its event stream.
GetExisting(req) ==
  /\ salesforceOAuthMiddleware(req) = Passed
  /\ sessionResolution(Registry, req) = "existing"
  /\ req.method = "GET"
  /\ opened < MaxStreams
  /\ opened' = opened + 1
  /\ SetRegistry(getTracking(Registry, req, opened + 1, now))
  /\ closeListeners' = MapSet(closeListeners, opened + 1, req.sid)
  /\ last' = Answer(req, "handleRequest", Passed)
  /\ UNCHANGED <<now, created, handshake, inFlight, closing, origin,
                 released, destroyed>>
  /\ UNCHANGED <<exchangeVars, resolution>>

\* Lines 375-390, 393: DELETE of an existing session: the maps are cleaned
\* and the transport found at 266 is then handed the request.
DeleteExisting(req) ==
  /\ salesforceOAuthMiddleware(req) = Passed
  /\ sessionResolution(Registry, req) = "existing"
  /\ req.method = "DELETE"
  /\ SetRegistry(deleteCleanup(Registry, req.sid))
  /\ released' = Release(Registry, {req.sid})
  /\ destroyed' = destroyed \cup {req.sid}
  /\ closing' = closing \cup {req.sid}
  /\ last' = Answer(req, "handleRequest", Passed)
  /\ UNCHANGED <<now, created, opened, handshake, closeListeners, inFlight,
                 origin>>
  /\ UNCHANGED <<exchangeVars, resolution>>

\* ------------------------------------------------ transport callbacks
\* Lines 277-297: createMcpServer resolved; the server, the transport and
\* the activity stamp are registered in one synchronous run, and the
\* callback suspends again at server.connect (300).
SessionInitialized(id) ==
  /\ handshake[id] = "creating"
  /\ SetRegistry(registerSession(Registry, id, now))
  /\ handshake' = [handshake EXCEPT ![id] = "connecting"]
  /\ last' = Event("onsessioninitialized", id)
  /\ UNCHANGED <<now, created, opened, closeListeners, inFlight, closing,
                 origin, released, destroyed>>
  /\ UNCHANGED <<exchangeVars, resolution>>

\* Lines 281-293: Cache.safeSet or createMcpServer rejects: nothing was
\* registered.  The rejection leaves handleRequest through the catch at 395
\* (InternalError) or is answered inside the transport (Passed).
SessionInitFailed(id, res) ==
  /\ handshake[id] = "creating"
  /\ handshake' = [handshake EXCEPT ![id] = "rejected"]
  /\ last' = [Event("createMcpServer rejected", id) EXCEPT !.res = res]
  /\ UNCHANGED <<transports, mcpServers, sseStreams, sessionActivity, now,
                 created, opened, closeListeners, inFlight, closing, origin,
                 released, destroyed>>
  /\ UNCHANGED <<exchangeVars, resolution>>

\* Lines 300-301: server.connect resolved.
ServerConnected(id) ==
  /\ handshake[id] = "connecting"
  /\ handshake' = [handshake EXCEPT ![id] = "ready"]
  /\ last' = Event("connected", id)
  /\ UNCHANGED <<transports, mcpServers, sseStreams, sessionActivity, now,
                 created, opened, closeListeners, inFlight, closing, origin,
                 released, destroyed>>
  /\ UNCHANGED <<exchangeVars, resolution>>

\* Line 300: server.connect rejects; the registrations of 295-297 stay.
ServerConnectFailed(id, res) ==
  /\ handshake[id] = "connecting"
  /\ handshake' = [handshake EXCEPT ![id] = "unconnected"]
  /\ last' = [Event("connect rejected", id) EXCEPT !.res = res]
  /\ UNCHANGED <<transports, mcpServers, sseStreams, sessionActivity, now,
                 created, opened, closeListeners, inFlight, closing, origin,
                 released, destroyed>>
  /\ UNCHANGED <<exchangeVars, resolution>>

\* Line 393 resumes: the transport finished a POST, or threw (catch, 395).
PostFinished(id, res) ==
  /\ id \in inFlight
  /\ inFlight' = inFlight \ {id}
  /\ last' = [Event("handleRequest settled", id) EXCEPT !.res = res]
  /\ UNCHANGED <<transports, mcpServers, sseStreams, sessionActivity, now,
                 created, opened, handshake, closeListeners, closing, origin,
                 released, destroyed>>
  /\ UNCHANGED <<exchangeVars, resolution>>

\* Lines 303-309: the transport, handed a DELETE, calls onsessionclosed.
SessionClosed(id) ==
  /\ id \in closing
  /\ closing' = closing \ {id}
  /\ SetRegistry(sessionClosedCleanup(Registry, id))
  /\ released' = Release(Registry, {id})
  /\ destroyed' = destroyed \cup {id}
  /\ last' = Event("onsessionclosed", id)
  /\ UNCHANGED <<now, created, opened, handshake, closeListeners, inFlight,
                 origin>>
  /\ UNCHANGED <<exchangeVars, resolution>>

\* Lines 357-373: a tracked response object emits 'close' (once).
StreamClose(stream) ==
  /\ stream \in DOMAIN closeListeners
  /\ LET sid == closeListeners[stream] IN
     /\ SetRegistry(closeCleanup(Registry, sid))
     /\ released' = Release(Registry, {sid})
     /\ destroyed' = destroyed \cup {sid}
     /\ last' = Event("close", sid)
  /\ closeListeners' = MapDelete(closeListeners, stream)
  /\ UNCHANGED <<now, created, opened, handshake, inFlight, closing, origin>>
  /\ UNCHANGED <<exchangeVars, resolution>>

\* ----------------------------------------------------- keepalive timer
\* Lines 426-456: one comment is written to every tracked stream; threw is
\* the set of sessions whose stream.write throws.  A write that returns
\* false (backpressure) is only logged.
\* Mutant: every stream written to is dropped from the stream map, whether
\* the write threw or not.
keepaliveWritesDropsStreams(r, threw) ==
  [r EXCEPT !.sseStreams = EmptyMap,
            !.sessionActivity = MapDeleteAll(@, threw)]

\* Mutant: the catch block closes the session as well (transports.delete
\* and mcpServers.delete next to the two deletes of 450-451).
keepaliveWritesClosesSession(r, threw) ==
  [transports |-> r.transports \ threw,
   mcpServers |-> r.mcpServers \ threw,
   sseStreams |-> MapDeleteAll(r.sseStreams, threw),
   sessionActivity |-> MapDeleteAll(r.sessionActivity, threw)]

keepaliveWrites(r, threw) ==
  [r EXCEPT !.sseStreams = MapDeleteAll(@, threw),
            !.sessionActivity = MapDeleteAll(@, threw)]

\* Mutant: a session is idle from the TTL on (>= at line 461).
idleSessionsFromTtl(r, t) ==
  {id \in DOMAIN r.sessionActivity : t - r.sessionActivity[id] >= sessionTtlMs}

\* Line 461: the sessions the prune loop finds idle at time t.
idleSessions(r, t) ==
  {id \in DOMAIN r.sessionActivity : t - r.sessionActivity[id] > sessionTtlMs}

\* Mutant: the prune loop without mcpServers.delete.
pruneIdleKeepsServer(r, t) ==
  LET idle == idleSessions(r, t) IN
  [transports |-> r.transports \ idle,
   mcpServers |-> r.mcpServers,
   sseStreams |-> MapDeleteAll(r.sseStreams, idle),
   sessionActivity |-> MapDeleteAll(r.sessionActivity, idle)]

\* Lines 459-472: every idle session is removed from the four maps.
pruneIdle(r, t) ==
  LET idle == idleSessions(r, t) IN
  [transports |-> r.transports \ idle,
   mcpServers |-> r.mcpServers \ idle,
   sseStreams |-> MapDeleteAll(r.sseStreams, idle),
   sessionActivity |-> MapDeleteAll(r.sessionActivity, idle)]

\* Line 466: the removals the prune loop logs.
pruneReported(r, t) ==
  {id \in idleSessions(r, t) :
     id \in r.transports \/ id \in r.mcpServers \/ id \in DOMAIN r.sseStreams}

\* Lines 425-473: one run of the setInterval callback.
Keepalive(threw, bp) ==
  LET written == keepaliveWrites(Registry, threw) IN
  /\ threw \subseteq DOMAIN sseStreams
  /\ bp \subseteq DOMAIN sseStreams \ threw
  /\ SetRegistry(pruneIdle(written, now))
  /\ released' = Release(written, idleSessions(written, now))
  /\ destroyed' = destroyed \cup idleSessions(written, now)
  /\ last' = [NoLast EXCEPT !.op = "keepalive", !.at = "timer",
                            !.threw = threw, !.bp = bp,
                            !.pruned = idleSessions(written, now),
                            !.reported = pruneReported(written, now)]
  /\ UNCHANGED <<now, created, opened, handshake, closeListeners, inFlight,
                 closing, origin>>
  /\ UNCHANGED <<exchangeVars, resolution>>

\* ----------------------------------------------------------------- clock
\* Date.now() moves on by one step.  The code reads the clock only to stamp
\* activity (297, 350, 356) and to take the difference at line 461, so once
\* the clock has MaxClock steps behind it the stamps are moved back by one
\* step instead (a stamp already MaxClock steps old stays that old: it is
\* older than the TTL either way).
Max(a, b) == IF a > b THEN a ELSE b
ClockAdvance ==
  /\ IF now < MaxClock * ClockStepMs
     THEN /\ now' = now + ClockStepMs
          /\ sessionActivity' = sessionActivity
     ELSE /\ now' = now
          /\ sessionActivity' =
               [id \in DOMAIN sessionActivity |->
                  Max(0, sessionActivity[id] - ClockStepMs)]
  /\ last' = [NoLast EXCEPT !.op = "clock", !.at = "clock"]
  /\ UNCHANGED <<transports, mcpServers, sseStreams, created, opened,
                 handshake, closeListeners, inFlight, closing, origin,
                 released, destroyed>>
  /\ UNCHANGED <<exchangeVars, resolution>>

\* The timer fires: stream.write throws for some streams and reports
\* backpressure for some others.
KeepaliveTick ==
  \E threw \in SUBSET SessionIds, bp \in SUBSET SessionIds : Keepalive(threw, bp)

Thrown == {InternalError, Passed}

Next ==
  \/ \E req \in Requests : GateReject(req)
  \/ \E req \in Requests : ResolveReject(req)
  \/ \E req \in Requests : NewSession(req)
  \/ \E req \in Requests : PostExisting(req)
  \/ \E req \in Requests : GetExisting(req)
  \/ \E req \in Requests : DeleteExisting(req)
  \/ \E id \in SessionIds : SessionInitialized(id)
  \/ \E id \in SessionIds, res \in Thrown : SessionInitFailed(id, res)
  \/ \E id \in SessionIds : ServerConnected(id)
  \/ \E id \in SessionIds, res \in Thrown : ServerConnectFailed(id, res)
  \/ \E id \in SessionIds, res \in Thrown : PostFinished(id, res)
  \/ \E id \in SessionIds : SessionClosed(id)
  \/ \E stream \in StreamIds : StreamClose(stream)
  \/ KeepaliveTick
  \/ ClockAdvance

Spec == Init /\ [][Next]_vars

\* setInterval keeps firing while the server runs (425, cleared only on
\* 'close' at 480), and time keeps passing.
FairSpec == Spec /\ WF_vars(KeepaliveTick) /\ WF_vars(ClockAdvance)

\* ------------------------------------------- one exchange, gate to reply
\* One request is followed from the gate to the reply this layer writes for
\* it: the gate's 401 (72-112), the handler's 400 (311-336) or the 500 of
\* its catch block (395-408).  The registry is a state Spec reaches and is
\* held fixed: every reply of this layer is written before the handler
\* touches a map, and the maps' updates are the actions of Spec.
Bearer == <<"B", "e", "a", "r", "e", "r">>
Token == <<"t", "k">>
Blank == <<" ">>
GateAuthorizationValues ==
  { HUndef,
    HStr(<<>>),
    HStr(Bearer \o Blank \o Token),
    HStr(Bearer \o Blank \o Blank \o Token \o Blank),
    HStr(Bearer \o Blank),
    HStr(Bearer \o Blank \o Blank \o Blank),
    HStr(Bearer),
    HStr(Bearer \o Token),
    HStr(<<"b", "e", "a", "r", "e", "r", " ">> \o Token),
    HStr(<<"B", "a", "s", "i", "c", " ">> \o Token),
    HArr(<<>>),
    HArr(<< <<>>, Bearer \o Blank \o Token >>),
    HArr(<< Bearer \o Blank \o Token, <<"B", "a", "s", "i", "c", " ">> \o Token >>) }
InstanceUrlValues ==
  { HUndef, HStr(<<>>), HStr(<<"u">>), HArr(<< <<"u">>, <<"v">> >>),
    HArr(<< <<>>, <<"u">> >>) }
HeaderNames == {"authorization", "x-salesforce-instance-url"}
\* A header store has any subset of the two headers.
HeaderStores ==
  {[name \in names |->
      IF name = "authorization" THEN a ELSE u] :
     names \in SUBSET HeaderNames,
     a \in GateAuthorizationValues, u \in InstanceUrlValues}
\* The id member of a JSON-RPC body: absent, JSON null, or a value.
RequestIdValues == {Undef, "null", "0", "7"}
GateBodies ==
  {[present |-> FALSE, method |-> Undef, id |-> Undef]}
    \cup [present : {TRUE}, method : RpcMethods, id : RequestIdValues]
GateRequests ==
  [method : {"GET", "POST", "DELETE"}, sid : RequestSids, body : GateBodies,
   headers : HeaderStores]

\* Lines 44-58: the requests the gate lets through unexamined.
bypassesAuth(req) ==
  req.method = "GET" \/ bodyMethod(req) \in skipAuthMethods
\* Line 53: req.body?.id ?? 'unknown'.
gateRequestId(req) ==
  IF req.body.present /\ req.body.id \notin {Undef, "null"}
  THEN req.body.id ELSE "unknown"
\* Lines 319, 333, 405: req.body?.id ?? null.
handlerRequestId(req) ==
  IF req.body.present /\ req.body.id \notin {Undef, "null"}
  THEN req.body.id ELSE "null"
\* res.status(...).json({jsonrpc, error: {code, message, data}, id}).
Reply(res, id, data) ==
  [status |-> res.status, code |-> res.code, message |-> res.message,
   id |-> id, data |-> data]
\* Lines 96, 117-133: the context attached to a request the gate examined.
authContext(req) ==
  LET authHeader == getHeaderValue(req.headers, "authorization")
      instanceUrl == getHeaderValue(req.headers, "x-salesforce-instance-url")
  IN [attached |-> TRUE,
      accessToken |-> trim(substring(authHeader.v, 7)),
      instanceUrl |-> IF Falsy(instanceUrl) THEN HUndef ELSE instanceUrl]

\* Mutant: the catch block answers without looking at res.headersSent.
catchReplyAlways(req, error, headersSent, written) ==
  Reply(InternalError, handlerRequestId(req), error)
\* Lines 395-408: the catch block of the handler; written is what this
\* layer has written so far.
catchReply(req, error, headersSent, written) ==
  IF headersSent THEN written
  ELSE Reply(InternalError, handlerRequestId(req), error)

\* error.message of the TypeError of line 273 (body is undefined).
BodyTypeError == "Cannot read properties of undefined (reading 'method')"
\* error.message of what transport.handleRequest may throw.
TransportErrors == {"boom"}

\* A registry state of Spec: the sessions ids have completed their handshake.
Serving(ids) ==
  /\ transports = ids
  /\ mcpServers = ids
  /\ sseStreams = EmptyMap
  /\ sessionActivity = [id \in ids |-> 0]
  /\ now = 0
  /\ created = Cardinality(ids)
  /\ opened = 0
  /\ handshake = [id \in SessionIds |-> IF id \in ids THEN "ready" ELSE "none"]
  /\ closeListeners = EmptyMap
  /\ inFlight = {}
  /\ closing = {}
  /\ origin = [id \in ids |->
                 [method |-> "POST", rpc |-> "initialize", sid |-> 0]]
  /\ released = [id \in AllSids |-> 0]
  /\ destroyed = {}
  /\ last = IF ids = {} THEN NoLast ELSE Event("connected", Cardinality(ids))

ExchangeInit ==
  /\ \E k \in 0..MaxSessions : Serving(1..k)
  /\ request \in GateRequests
  /\ stage = StageAt("arrived")
  /\ reply = NoReply
  /\ salesforceAuth = NoAuth
  /\ resolution = NoResolution

\* Lines 42-146: the gate answers 401, or calls next() after attaching the
\* context to a request it examined.
Gate ==
  /\ stage.at = "arrived"
  /\ LET res == salesforceOAuthMiddleware(request) IN
     IF res = Passed
     THEN /\ stage' = StageAt("handler")
          /\ reply' = reply
          /\ salesforceAuth' = IF bypassesAuth(request) THEN salesforceAuth
                               ELSE authContext(request)
     ELSE /\ stage' = StageAt("rejected")
          /\ reply' = Reply(res, gateRequestId(request), Undef)
          /\ salesforceAuth' = salesforceAuth
  /\ UNCHANGED <<lifecycleVars, request, resolution>>

\* Lines 261-336, 395-408: the handler answers 400, or 500 from its catch
\* block when body.method threw, or goes on towards transport.handleRequest.
Resolve ==
  /\ stage.at = "handler"
  /\ LET how == sessionResolution(Registry, request) IN
     CASE how = "SessionRequired" ->
            /\ reply' = Reply(SessionRequired, handlerRequestId(request), Undef)
            /\ stage' = StageAt("answered")
       [] how = "InvalidSession" ->
            /\ reply' = Reply(InvalidSession, handlerRequestId(request), Undef)
            /\ stage' = StageAt("answered")
       [] how = "TypeError" ->
            /\ reply' = catchReply(request, BodyTypeError, FALSE, reply)
            /\ stage' = [at |-> "caught", error |-> BodyTypeError,
                         headersSent |-> FALSE]
       [] OTHER ->
            /\ reply' = reply
            /\ stage' = StageAt("transport")
  /\ UNCHANGED <<lifecycleVars, request, salesforceAuth, resolution>>

\* Line 393 returns: the transport answered the request.
TransportReturns ==
  /\ stage.at = "transport"
  /\ stage' = StageAt("done")
  /\ UNCHANGED <<lifecycleVars, request, reply, salesforceAuth, resolution>>

\* Line 393 throws error, before or after the transport sent the headers.
TransportThrows(error, headersSent) ==
  /\ stage.at = "transport"
  /\ reply' = catchReply(request, error, headersSent, reply)
  /\ stage' = [at |-> "caught", error |-> error, headersSent |-> headersSent]
  /\ UNCHANGED <<lifecycleVars, request, salesforceAuth, resolution>>

ExchangeNext ==
  \/ Gate
  \/ Resolve
  \/ TransportReturns
  \/ \E error \in TransportErrors, headersSent \in BOOLEAN :
       TransportThrows(error, headersSent)

ExchangeSpec == ExchangeInit /\ [][ExchangeNext]_vars

\* ------------------------------------------------- getAuthContext (tools)
\* new URL(restUrl), for the strings drawn here: a scheme of letters, '://',
\* an authority up to the first '/', '?' or '#'; scheme and host are
\* lower-cased and the default port of https is dropped from url.host.
Lower(ch) == CASE ch = "F" -> "f" [] ch = "C" -> "c" [] OTHER -> ch
LowerAll(s) == [i \in 1..Len(s) |-> Lower(s[i])]
\* The first index from `from` on at which s has one of chars; Len(s) + 1
\* when there is none.
RECURSIVE indexOfAny(_, _, _)
indexOfAny(s, chars, from) ==
  IF from > Len(s) THEN Len(s) + 1
  ELSE IF s[from] \in chars THEN from
  ELSE indexOfAny(s, chars, from + 1)
HttpsDefaultPort == <<"4", "4", "3">>
InvalidURL == [valid |-> FALSE, protocol |-> <<>>, host |-> <<>>]

\* Mutant: url.href is taken in place of url.host (the path and the query
\* stay in the result).
URLKeepsPath(s) ==
  LET colon == indexOfAny(s, {":"}, 1)
      scheme == LowerAll(SubSeq(s, 1, colon - 1))
  IN IF colon > Len(s) \/ colon = 1 THEN InvalidURL
     ELSE IF Len(s) < colon + 3 \/ s[colon + 1] # "/" \/ s[colon + 2] # "/"
          THEN InvalidURL
     ELSE [valid |-> TRUE, protocol |-> scheme \o <<":">>,
           host |-> SubSeq(s, colon + 3, Len(s))]

URL(s) ==
  LET colon == indexOfAny(s, {":"}, 1)
      scheme == LowerAll(SubSeq(s, 1, colon - 1))
      end == indexOfAny(s, {"/", "?", "#"}, colon + 3)
      authority == SubSeq(s, colon + 3, end - 1)
      portColon == indexOfAny(authority, {":"}, 1)
      hostname == LowerAll(SubSeq(authority, 1, portColon - 1))
      port == SubSeq(authority, portColon + 1, Len(authority))
  IN IF colon > Len(s) \/ colon = 1 THEN InvalidURL
     ELSE IF indexOfAny(scheme, {".", "/", "?", "#"}, 1) <= Len(scheme)
          THEN InvalidURL
     ELSE IF Len(s) < colon + 2 \/ s[colon + 1] # "/" \/ s[colon + 2] # "/"
          THEN InvalidURL
     ELSE IF hostname = <<>> THEN InvalidURL
     ELSE [valid |-> TRUE,
           protocol |-> scheme \o <<":">>,
           host |-> IF port = <<>> \/ port = HttpsDefaultPort THEN hostname
                    ELSE hostname \o <<":">> \o port]

\* The urls.rest strings the userinfo endpoint is made to return, built from
\* their parts, and three that are no absolute URL.
RestUrlParts ==
  [scheme : {<<"h", "t", "t", "p", "s">>},
   host : {<<"f", ".", "c">>, <<"F", ".", "c">>},
   port : {<<>>, HttpsDefaultPort, <<"8", "4", "4", "3">>},
   path : {<<>>, <<"/", "s", "/", "v", "/">>},
   query : {<<>>, <<"q", "=", "1">>}]
href(parts) ==
  parts.scheme \o <<":", "/", "/">> \o parts.host
    \o (IF parts.port = <<>> THEN <<>> ELSE <<":">> \o parts.port)
    \o parts.path
    \o (IF parts.query = <<>> THEN <<>> ELSE <<"?">> \o parts.query)
BrokenRestUrls ==
  { <<"f", ".", "c", "/", "s">>,
    <<"h", "t", "t", "p", "s", ":", "/", "/">>,
    <<"/", "s", "/", "v">> }
\* What response.json() settles with: a rejection, or a userinfo object
\* without urls, without urls.rest, or with a string in it.
UserInfoBodies ==
  {[kind |-> k, rest |-> <<>>] : k \in {"unparsable", "no urls", "no rest"}}
    \cup {[kind |-> "rest", rest |-> u] :
            u \in {href(parts) : parts \in RestUrlParts}
                    \cup BrokenRestUrls \cup {<<>>}}
\* What fetch settles with: a rejection, a response that is not ok, or one
\* that is.
FetchOutcomes == {"rejected", "not ok", "ok"}

\* The value of a getAuthContext call: undefined, or the context.
NoContext == [defined |-> FALSE, accessToken |-> <<>>, instanceUrl |-> <<>>]
Context(accessToken, instanceUrl) ==
  [defined |-> TRUE, accessToken |-> accessToken, instanceUrl |-> instanceUrl]

\* Mutant: the remainder after the prefix is not trimmed.
bearerTokenUntrimmed(headers) ==
  LET authHeader == getHeaderValue(headers, "authorization") IN
  IF Falsy(authHeader) \/ ~startsWith(authHeader.v, BearerPrefix) THEN <<>>
  ELSE substring(authHeader.v, 7)

\* Lines 111-119 of the resolver: the token, or the empty string where the
\* call returns undefined.
bearerToken(headers) ==
  LET authHeader == getHeaderValue(headers, "authorization") IN
  IF Falsy(authHeader) \/ ~startsWith(authHeader.v, BearerPrefix) THEN <<>>
  ELSE trim(substring(authHeader.v, 7))

\* Mutant: the URL derived by the previous call is kept and used again.
derivedInstanceUrlCached(r) == r.derived
\* Line 127: nothing is kept between calls.
derivedInstanceUrl(r) == <<>>

\* Line 122: the fast path.
fastPath(headers) == getHeaderValue(headers, "x-salesforce-instance-url")

\* Mutant: a failed derivation falls back to the login host.
derivationFailedFallback(accessToken) ==
  Context(accessToken, <<>>)
\* Lines 129-132: a failed derivation ends the call with undefined.
derivationFailed(accessToken) == NoContext

\* A call of getAuthContext(extra): the headers of extra.requestInfo (or
\* none), where the call is, the fetch calls it made, those made by all
\* calls so far, what the awaited calls settled with, and its value.
Call(hasHeaders, headers, round, total, derived) ==
  [pc |-> "called", hasHeaders |-> hasHeaders, headers |-> headers,
   round |-> round, calls |-> 0, total |-> total, derived |-> derived,
   fetch |-> "none", body |-> [kind |-> "none", rest |-> <<>>],
   result |-> NoContext]
Return(r, value) == [r EXCEPT !.pc = "returned", !.result = value]

ResolverInit ==
  /\ Serving({})
  /\ NoExchange
  /\ \E hasHeaders \in BOOLEAN, headers \in HeaderStores :
       /\ hasHeaders \/ headers = [name \in {} |-> HUndef]
       /\ resolution = Call(hasHeaders, headers, 1, 0, <<>>)

\* Lines 100-127 and 42-52: getAuthContext up to its return, or up to the
\* await of the fetch it makes when the instance URL header is missing.
GetAuthContext ==
  /\ resolution.pc = "called"
  /\ LET r == resolution
         accessToken == bearerToken(r.headers)
         instanceUrl == fastPath(r.headers)
     IN resolution' =
          IF ~r.hasHeaders THEN Return(r, NoContext)
          ELSE IF accessToken = <<>> THEN Return(r, NoContext)
          ELSE IF ~Falsy(instanceUrl)
               THEN Return(r, Context(accessToken, instanceUrl.v))
          ELSE IF derivedInstanceUrl(r) # <<>>
               THEN Return(r, Context(accessToken, derivedInstanceUrl(r)))
          ELSE [r EXCEPT !.pc = "fetch", !.calls = @ + 1, !.total = @ + 1]
  /\ UNCHANGED <<lifecycleVars, exchangeVars>>

\* Lines 47-57, 76-79, 129-132: the fetch settles.
FetchSettles(outcome) ==
  /\ resolution.pc = "fetch"
  /\ LET r == [resolution EXCEPT !.fetch = outcome] IN
     resolution' =
       IF outcome = "ok" THEN [r EXCEPT !.pc = "json"]
       ELSE Return(r, derivationFailed(bearerToken(r.headers)))
  /\ UNCHANGED <<lifecycleVars, exchangeVars>>

\* Lines 59-79, 129-142: response.json() settles, the URL is parsed and the
\* call returns.
JsonSettles(body) ==
  /\ resolution.pc = "json"
  /\ LET r == [resolution EXCEPT !.body = body]
         accessToken == bearerToken(r.headers)
         url == URL(body.rest)
     IN resolution' =
          IF body.kind # "rest" \/ body.rest = <<>> \/ ~url.valid
          THEN Return(r, derivationFailed(accessToken))
          ELSE Return([r EXCEPT !.derived = url.protocol \o <<"/", "/">> \o url.host],
                      Context(accessToken,
                              url.protocol \o <<"/", "/">> \o url.host))
  /\ UNCHANGED <<lifecycleVars, exchangeVars>>

\* The next tool call resolves again, with the same headers.
ResolveAgain ==
  /\ resolution.pc = "returned"
  /\ resolution.round < MaxResolves
  /\ resolution' = Call(resolution.hasHeaders, resolution.headers,
                        resolution.round + 1, resolution.total,
                        resolution.derived)
  /\ UNCHANGED <<lifecycleVars, exchangeVars>>

ResolverNext ==
  \/ GetAuthContext
  \/ \E outcome \in FetchOutcomes : FetchSettles(outcome)
  \/ \E body \in UserInfoBodies : JsonSettles(body)
  \/ ResolveAgain

ResolverSpec == ResolverInit /\ [][ResolverNext]_vars

\* ================================================================ claims
HttpMethods == {"GET", "POST", "DELETE"}
RegistryVars == <<transports, mcpServers, sseStreams, sessionActivity>>
\* onsessioninitialized has run lines 295-297 for id.
Registered(id) ==
  id \in SessionIds /\ handshake[id] \in {"connecting", "ready", "unconnected"}
\* id was destroyed, or was never registered.
Gone(id) == id \in destroyed \/ ~Registered(id)
\* The step taken is the handling of request req.
Handled(req) ==
  \/ GateReject(req)
  \/ ResolveReject(req)
  \/ NewSession(req)
  \/ PostExisting(req)
  \/ GetExisting(req)
  \/ DeleteExisting(req)

\* C1: destroy is idempotent.  A destroy trigger (DELETE, the stream 'close'
\* handler, onsessionclosed) run for an id that was destroyed before or was
\* never registered leaves the four maps as they are and ends in no
\* exception; an idle sweep neither prunes nor reports such an id and leaves
\* it out of the maps.
C1_DestroyIdempotent ==
  [][\A id \in AllSids :
       Gone(id) =>
         /\ (last'.sid = id /\ last'.op \in {"DELETE", "close", "onsessionclosed"})
              => (UNCHANGED RegistryVars /\ UNCHANGED released
                  /\ last'.res # InternalError)
         /\ last'.op = "keepalive"
              => (id \notin last'.pruned /\ id \notin last'.reported
                  /\ ~Known(Registry', id) /\ released'[id] = released[id])]_vars
\* The 'close' handler has just run for a session that DELETE destroyed
\* before (its transport was handed the DELETE).
C1_Witness ==
  /\ last.op = "close"
  /\ last.sid \in closing
  /\ released[last.sid] = 1

\* C2: once a destroy trigger (DELETE cleanup, stream close, idle prune,
\* onsessionclosed) has run for an id, the id is in none of the four maps.
C2_DestroyedAbsent == \A id \in destroyed : ~Known(Registry, id)
\* The idle sweep has just destroyed a session that had an open stream.
C2_Witness ==
  /\ last.op = "keepalive"
  /\ last.pruned # {}
  /\ last.pruned \subseteq destroyed
  /\ DOMAIN closeListeners # {}

\* C3 as stated: every request carrying a session id that is not registered
\* yet, or was destroyed, is answered InvalidSession.
C3_Original ==
  [][(last'.op \in HttpMethods /\ last'.sid # 0 /\ Gone(last'.sid))
       => last'.res = InvalidSession]_vars
\* C3 amended: such a request is answered InvalidSession when it passes the
\* gate, and MissingAuthorization (or another gate error) when the gate
\* stops it; it is never handed to a transport.
C3_InvalidSessionPastGate ==
  [][(last'.op \in HttpMethods /\ last'.sid # 0 /\ Gone(last'.sid))
       => /\ last'.at \in {"gate", "resolve"}
          /\ last'.at = "resolve" => last'.res = InvalidSession
          /\ last'.at = "gate" => last'.res.status = 401]_vars
\* A request for a session that DELETE destroyed was answered InvalidSession.
C3_Witness ==
  /\ last.op \in HttpMethods
  /\ last.res = InvalidSession
  /\ last.sid \in destroyed
  /\ released[last.sid] = 1

\* C4: sessions are never created implicitly.  Every id in the session map
\* belongs to a transport constructed for a POST 'initialize' that carried
\* no session id, and the map grows in no step but onsessioninitialized.
InitializeOrigin == [method |-> "POST", rpc |-> "initialize", sid |-> 0]
C4_OnlyInitializeCreates ==
  [][/\ \A id \in transports' : origin'[id] = InitializeOrigin
     /\ (transports' \subseteq transports \/ last'.op = "onsessioninitialized")]_vars
\* A session is registered.
C4_Witness ==
  /\ transports # {}
  /\ last.op = "onsessioninitialized"

\* The step taken handles req, a request of the kind the latest answer is for.
HandledAs(req) ==
  /\ last'.op = req.method
  /\ last'.sid = req.sid
  /\ Handled(req)
Handshake(req) == req.method = "POST" /\ bodyMethod(req) = "initialize"

\* C5 as stated: every request without a session id that is no handshake is
\* answered SessionRequired, whatever its HTTP and RPC method; a handshake
\* without a session id is not rejected for lacking one.
C5_Original ==
  [][\A req \in Requests :
       (req.sid = 0 /\ HandledAs(req)) =>
         IF Handshake(req)
         THEN last'.res \notin {SessionRequired, InvalidSession}
         ELSE last'.res = SessionRequired]_vars
\* C5 amended: of the requests without a session id that pass the gate, a
\* POST whose body has an RPC method other than 'initialize' (or none) is
\* answered SessionRequired, a GET or DELETE is answered InvalidSession, and
\* a handshake POST is handed to a new transport.
C5_SessionRequiredForPost ==
  [][\A req \in Requests :
       (req.sid = 0 /\ salesforceOAuthMiddleware(req) = Passed /\ HandledAs(req)) =>
         /\ Handshake(req)
              => (last'.res = Passed /\ last'.at = "handleRequest")
         /\ (req.method = "POST" /\ req.body.present /\ ~Handshake(req))
              => last'.res = SessionRequired
         /\ req.method \in {"GET", "DELETE"} => last'.res = InvalidSession]_vars
\* A POST without a session id was answered SessionRequired.
C5_Witness ==
  /\ last.op = "POST"
  /\ last.sid = 0
  /\ last.res = SessionRequired

\* C6 as stated: every request whose session id is not in the session map
\* is answered InvalidSession, and changes no map and creates no session.
C6_Original ==
  [][\A req \in Requests :
       (req.sid # 0 /\ req.sid \notin transports /\ HandledAs(req)) =>
         /\ last'.res = InvalidSession
         /\ UNCHANGED <<RegistryVars, created, handshake>>]_vars
\* C6 amended: such a request is answered InvalidSession when it passes the
\* gate, whatever its HTTP and RPC method, and with the gate's error when it
\* does not; either way it changes no map and creates no session.
C6_UnknownSessionRejected ==
  [][\A req \in Requests :
       (req.sid # 0 /\ req.sid \notin transports /\ HandledAs(req)) =>
         /\ last'.res = IF salesforceOAuthMiddleware(req) = Passed
                        THEN InvalidSession
                        ELSE salesforceOAuthMiddleware(req)
         /\ UNCHANGED <<RegistryVars, created, handshake>>]_vars
\* An id that no transport generated was answered InvalidSession while a
\* session was registered.
C6_Witness ==
  /\ last.op \in HttpMethods
  /\ last.sid = UnknownSid
  /\ last.res = InvalidSession
  /\ transports # {}

\* C7 as stated: a run of the timer destroys every session whose activity
\* stamp is older than the TTL when the timer fires, and destroys it once:
\* an id destroyed before is neither pruned nor reported again.
C7_Original ==
  [][last'.op = "keepalive" =>
       /\ \A id \in DOMAIN sessionActivity :
            now - sessionActivity[id] > sessionTtlMs
              => (id \in last'.pruned /\ ~Known(Registry', id))
       /\ \A id \in AllSids :
            Gone(id) => (id \notin last'.pruned /\ id \notin last'.reported)]_vars

\* A request, a stream 'close' or a teardown for id is the latest step.
Addressed(id) == last.sid = id /\ last.op \in HttpMethods \cup {"close"}
\* C8 as stated: under fair timer runs, a registered session that gets no
\* further request, stream 'close' or teardown is eventually removed from
\* the session map.
C8_Original ==
  \A id \in SessionIds :
    (id \in transports) ~> (id \notin transports \/ Addressed(id))

\* Every destroyed session was released exactly once, no session twice.
ReleasedOnce ==
  \A id \in AllSids :
    /\ released[id] <= 1
    /\ id \in destroyed => released[id] = 1
    /\ id \in transports \cup mcpServers => released[id] = 0
\* C9 as stated: however the 'close' handler, DELETE and the idle sweep
\* interleave, a session's transport and server are released exactly once,
\* and no request handler calls transport.handleRequest (393) for a session
\* that is not in the session map.
C9_Original ==
  /\ ReleasedOnce
  /\ (last.at = "handleRequest" /\ last.sid # 0) => last.sid \in transports
\* C9 amended: the release happens exactly once, and the only call of
\* transport.handleRequest for a session that is no longer in the session
\* map is the DELETE handler's own, on the transport it looked up before
\* its cleanup; GET and POST call it for registered sessions only.
C9_ReleasedOnceDeleteCallsAfter ==
  /\ ReleasedOnce
  /\ (last.at = "handleRequest" /\ last.sid # 0 /\ last.sid \notin transports)
       => (last.op = "DELETE" /\ last.sid \in destroyed /\ last.sid \in closing)
  /\ (last.at = "handleRequest" /\ last.op \in {"GET", "POST"} /\ last.sid # 0)
       => last.sid \in transports
\* DELETE, the 'close' handler and the idle sweep have all run for a
\* session while a POST for it is suspended in transport.handleRequest.
C9_Witness ==
  /\ last.op = "keepalive"
  /\ \E id \in destroyed :
       /\ id \in inFlight
       /\ id \in closing
       /\ released[id] = 1
  /\ opened > 0
  /\ DOMAIN closeListeners = {}

\* C10 as stated: every POST and every GET handed to the transport of an
\* existing session stamps the session's activity with the arrival time.
C10_Original ==
  [][\A req \in Requests :
       (req.method \in {"GET", "POST"} /\ req.sid \in transports
        /\ HandledAs(req) /\ last'.at = "handleRequest")
         => /\ req.sid \in DOMAIN sessionActivity'
            /\ sessionActivity'[req.sid] = now]_vars

\* C11 as stated: a keepalive write that fails, by throwing or by returning
\* false (backpressure), removes the session's stream reference from the
\* stream map in the same run of the timer.
C11_Original ==
  [][last'.op = "keepalive" =>
       \A id \in last'.threw \cup last'.bp : id \notin DOMAIN sseStreams']_vars

\* C12: a keepalive write failure does not close the session.  The write
\* loop (432-453) leaves transports and mcpServers as they are, and after
\* the run a session whose write failed is still found by the lookup of
\* line 266 unless the idle prune of the same run removed it.
C12_WriteFailureKeepsSession ==
  [][last'.op = "keepalive" =>
       LET written == keepaliveWrites(Registry, last'.threw) IN
       /\ written.transports = transports
       /\ written.mcpServers = mcpServers
       /\ \A id \in last'.threw \cup last'.bp :
            id \notin last'.pruned =>
              /\ (id \in transports <=> id \in transports')
              /\ (id \in mcpServers <=> id \in mcpServers')]_vars
\* A write has just thrown for a registered session, which is still in the
\* session map and the server map.
C12_Witness ==
  /\ last.op = "keepalive"
  /\ last.threw # {}
  /\ last.threw \subseteq transports \cap mcpServers

\* --------------------------------------------- claims about one exchange
\* The normalized credential header of the followed request.
Credential == getHeaderValue(request.headers, "authorization")
\* The gate called next() for the followed request.
PassedGate == stage.at \notin {"idle", "arrived", "rejected"}
\* The followed request is one the gate examines.
Examined ==
  /\ stage.at \notin {"idle", "arrived"}
  /\ request.method # "GET"
  /\ bodyMethod(request) \notin {"ping", "initialize"}
\* The credential has the prefix 'Bearer ' (case-sensitive), and something
\* other than blanks after it.
HasBearerPrefix(c) ==
  /\ Len(c.v) >= 7
  /\ \A i \in 1..7 : c.v[i] = <<"B", "e", "a", "r", "e", "r", " ">>[i]
HasToken(c) == \E i \in 8..Len(c.v) : c.v[i] # " "

\* C13: for a request that is no GET and whose RPC method is not exempt,
\* the gate calls next() only if the normalized credential is present,
\* starts with 'Bearer ' and has a non-blank remainder, and then attaches
\* the trimmed token; otherwise it answers 401 with the message of the
\* failure class (missing header, wrong scheme, empty token: three different
\* messages) and attaches nothing.
C13_GateRequiresBearer ==
  Examined =>
    LET c == Credential
        missing == Falsy(c)
        wrong == ~Falsy(c) /\ ~HasBearerPrefix(c)
        empty == ~Falsy(c) /\ HasBearerPrefix(c) /\ ~HasToken(c)
    IN /\ PassedGate <=> ~(missing \/ wrong \/ empty)
       /\ missing => reply = Reply(MissingAuthorization, reply.id, Undef)
       /\ wrong => reply = Reply(InvalidAuthorizationFormat, reply.id, Undef)
       /\ empty => reply = Reply(EmptyAccessToken, reply.id, Undef)
       /\ Cardinality({MissingAuthorization.message,
                       InvalidAuthorizationFormat.message,
                       EmptyAccessToken.message}) = 3
       /\ ~PassedGate => (reply.status = 401 /\ salesforceAuth = NoAuth)
       /\ PassedGate =>
            /\ salesforceAuth.attached
            /\ salesforceAuth.accessToken # <<>>
            /\ Head(salesforceAuth.accessToken) # " "
            /\ salesforceAuth.accessToken[Len(salesforceAuth.accessToken)] # " "
\* A POST 'tools/call' whose credential has blanks around the token passed
\* the gate with the trimmed token attached.
C13_Witness ==
  /\ stage.at = "handler"
  /\ request.method = "POST"
  /\ bodyMethod(request) = "tools/call"
  /\ Credential = HStr(Bearer \o Blank \o Blank \o Token \o Blank)
  /\ salesforceAuth.accessToken = Token

\* The followed request carries no credential header.
NoCredentialHeader ==
  \/ "authorization" \notin DOMAIN request.headers
  \/ request.headers["authorization"] = HUndef
\* C14: a request without a credential header is passed on by the gate, with
\* no response written and no context attached, exactly when it is a GET or
\* its RPC method is 'ping' or 'initialize'; otherwise the gate answers 401.
C14_BypassWithoutCredential ==
  (stage.at \notin {"idle", "arrived"} /\ NoCredentialHeader) =>
    /\ PassedGate <=>
         (request.method = "GET" \/ bodyMethod(request) \in {"ping", "initialize"})
    /\ PassedGate => salesforceAuth = NoAuth
    /\ stage.at = "handler" => reply = NoReply
    /\ ~PassedGate => (reply.status = 401 /\ salesforceAuth = NoAuth)
\* A DELETE whose body is a 'ping' passed the gate without any header.
C14_Witness ==
  /\ stage.at = "handler"
  /\ request.method = "DELETE"
  /\ bodyMethod(request) = "ping"
  /\ DOMAIN request.headers = {}
  /\ reply = NoReply

\* The correlation id of the followed request; "null" when its body has none.
CorrelationId ==
  IF request.body.present /\ request.body.id \notin {Undef, "null"}
  THEN request.body.id ELSE "null"
\* C15 as stated: every error response of this layer (the gate's 401,
\* SessionRequired, InvalidSession, InternalError) carries the request's id
\* when the body has one and null when it has none.
C15_Original == reply.status # 0 => reply.id = CorrelationId

\* C16 as stated: an exception raised while the handler runs (session
\* resolution, handshake wiring, transport handling) is answered with
\* InternalError: HTTP 500, code -32603, the error's message as data.
C16_Original ==
  stage.at = "caught" =>
    /\ reply.status = 500
    /\ reply.code = -32603
    /\ reply.data = stage.error
\* C16 amended: the exception is caught by the handler, and answered with
\* InternalError (500, -32603, the error's message as data, the request's id
\* or null) unless the response headers were sent before it was thrown; then
\* the catch block writes nothing.
C16_InternalErrorUnlessHeadersSent ==
  stage.at = "caught" =>
    IF stage.headersSent THEN reply = NoReply
    ELSE /\ reply.status = 500
         /\ reply.code = -32603
         /\ reply.message = "Internal error"
         /\ reply.data = stage.error
         /\ reply.id = CorrelationId
\* transport.handleRequest threw before any header was sent and the catch
\* block answered 500 with the error's message.
C16_Witness ==
  /\ stage.at = "caught"
  /\ stage.error \in TransportErrors
  /\ ~stage.headersSent
  /\ reply.status = 500
  /\ reply.data = stage.error

\* The names getHeaderValue is asked for, and one no request carries.
AskedNames == HeaderNames \cup {"mcp-protocol-version"}
\* C20 as stated: normalization returns absent for an absent header, the
\* value itself for a single string, the first element for a list, and no
\* step of the exchange changes the header store.
C20_Original ==
  [][/\ request' = request
     /\ \A name \in AskedNames :
          LET headers == request.headers
              got == getHeaderValue(headers, name)
          IN IF name \notin DOMAIN headers THEN got = HUndef
             ELSE CASE headers[name].t = "undefined" -> got = HUndef
                    [] headers[name].t = "string" -> got = headers[name]
                    [] OTHER -> (headers[name].v # <<>>
                                   => got = HStr(headers[name].v[1]))]_vars
\* C20 amended: normalization returns absent for an absent header, for the
\* empty string and for an empty list, the value itself for a non-empty
\* string, the first element for a non-empty list, and no step of the
\* exchange changes the header store.
C20_NormalizedHeader ==
  [][/\ request' = request
     /\ \A name \in AskedNames :
          LET headers == request.headers
              got == getHeaderValue(headers, name)
          IN IF name \notin DOMAIN headers THEN got = HUndef
             ELSE CASE headers[name].t = "undefined" -> got = HUndef
                    [] headers[name].t = "string" ->
                         got = (IF headers[name].v = <<>> THEN HUndef
                                ELSE headers[name])
                    [] OTHER ->
                         got = (IF headers[name].v = <<>> THEN HUndef
                                ELSE HStr(headers[name].v[1]))]_vars
\* The gate attached the first of two instance URLs sent as a list.
C20_Witness ==
  /\ stage.at = "handler"
  /\ "x-salesforce-instance-url" \in DOMAIN request.headers
  /\ request.headers["x-salesforce-instance-url"] = HArr(<< <<"u">>, <<"v">> >>)
  /\ salesforceAuth.attached
  /\ salesforceAuth.instanceUrl = HStr(<<"u">>)

\* ------------------------------------------ claims about getAuthContext
\* The call was given headers whose normalized instance URL header is a
\* non-empty string.
EndpointPresent ==
  /\ resolution.hasHeaders
  /\ ~Falsy(getHeaderValue(resolution.headers, "x-salesforce-instance-url"))
\* The call was given headers whose normalized credential has the prefix
\* 'Bearer ' and a token after it.
ValidCredential ==
  /\ resolution.hasHeaders
  /\ LET c == getHeaderValue(resolution.headers, "authorization") IN
     ~Falsy(c) /\ HasBearerPrefix(c) /\ HasToken(c)
Resolving == resolution.pc \in {"called", "fetch", "json", "returned"}
Returned == resolution.pc = "returned"

\* C17: one getAuthContext call makes no userinfo call when the instance
\* URL header is present (and none when the credential is not valid), and
\* exactly one when the header is absent and the credential is valid; never
\* a second one after a failure; and a call made after another with the same
\* headers makes as many as the first did (nothing is cached).
C17_OneIntrospectionCall ==
  Resolving =>
    /\ resolution.calls <= 1
    /\ EndpointPresent => resolution.calls = 0
    /\ ~ValidCredential => resolution.calls = 0
    /\ (Returned /\ ValidCredential /\ ~EndpointPresent) => resolution.calls = 1
    /\ Returned => resolution.total = resolution.round * resolution.calls
\* The second of two calls with the same credential and no instance URL
\* header has returned a context, after one userinfo call of its own.
C17_Witness ==
  /\ Returned
  /\ resolution.round = 2
  /\ resolution.calls = 1
  /\ resolution.total = 2
  /\ resolution.result.defined

\* The userinfo call of this getAuthContext call failed to yield a URL.
DerivationFailed ==
  /\ resolution.calls = 1
  /\ \/ resolution.fetch \in {"rejected", "not ok"}
     \/ resolution.body.kind \in {"unparsable", "no urls", "no rest"}
     \/ resolution.body.rest \in BrokenRestUrls \cup {<<>>}
\* C18: getAuthContext returns a context only with a non-empty token and a
\* non-empty instance URL; a missing, wrongly prefixed or empty credential
\* and every failure of the userinfo call (rejection, status not ok, body
\* not JSON, no urls.rest, a string new URL rejects) give undefined.
C18_ContextOnlyWhenSettled ==
  Returned =>
    /\ resolution.result.defined =>
         /\ resolution.result.accessToken # <<>>
         /\ resolution.result.instanceUrl # <<>>
    /\ ~ValidCredential => resolution.result = NoContext
    /\ DerivationFailed => resolution.result = NoContext
\* The userinfo call returned a string that is no absolute URL, and the
\* call returned undefined.
C18_Witness ==
  /\ Returned
  /\ resolution.fetch = "ok"
  /\ resolution.body.kind = "rest"
  /\ resolution.body.rest \in BrokenRestUrls
  /\ resolution.result = NoContext

\* C19: on the slow path, a urls.rest made of scheme, host, path and query
\* gives scheme + '://' + host (scheme and host as new URL normalizes them,
\* in lower case), without the path and the query; on the fast path the
\* normalized header value is the instance URL, as it is.
C19_SchemeAndHostOnly ==
  Returned =>
    /\ (resolution.calls = 1 /\ resolution.body.kind = "rest") =>
         \A parts \in RestUrlParts :
           (parts.port = <<>> /\ resolution.body.rest = href(parts)) =>
             /\ resolution.result.defined
             /\ resolution.result.instanceUrl =
                  LowerAll(parts.scheme) \o <<":", "/", "/">>
                    \o LowerAll(parts.host)
    /\ (EndpointPresent /\ ValidCredential) =>
         LET raw == resolution.headers["x-salesforce-instance-url"] IN
         /\ resolution.result.defined
         /\ resolution.result.instanceUrl =
              IF raw.t = "string" THEN raw.v ELSE raw.v[1]
\* urls.rest was https://f.c/s/v/?q=1 and the call returned https://f.c.
C19_Witness ==
  /\ Returned
  /\ resolution.calls = 1
  /\ resolution.body.rest =
       <<"h", "t", "t", "p", "s", ":", "/", "/", "f", ".", "c",
         "/", "s", "/", "v", "/", "?", "q", "=", "1">>
  /\ resolution.result.instanceUrl =
       <<"h", "t", "t", "p", "s", ":", "/", "/", "f", ".", "c">>
\* ------------------------------------------- claims about the registry
\* C21 as stated: an id is in the session map only once its server was
\* created and connected to its transport; in no state is an id in the map
\* while server.connect (line 300) for it is pending.
C21_Original ==
  \A id \in transports : handshake[id] \notin {"connecting", "unconnected"}

\* C22: at every yield point the server map has the ids of the session map,
\* and the stream map and the activity map have ids of the session map only.
C22_KeySetsConsistent ==
  /\ mcpServers = transports
  /\ DOMAIN sseStreams \subseteq transports
  /\ DOMAIN sessionActivity \subseteq transports
\* A keepalive write has just thrown for a session that stays registered:
\* its stream and its stamp are gone, its transport and server are not.
C22_Witness ==
  /\ last.op = "keepalive"
  /\ last.threw # {}
  /\ last.threw \subseteq transports
  /\ DOMAIN sseStreams = {}
  /\ closeListeners # EmptyMap

\* C23 as stated: every id in the session map has an activity stamp.
C23_Original == transports \subseteq DOMAIN sessionActivity
\* The response object whose 'close' handler ran in this step.
ClosedStream(stream) ==
  /\ stream \in DOMAIN closeListeners
  /\ stream \notin DOMAIN closeListeners'
\* stream was superseded: a later GET put another response object in the
\* stream map for its session.
Superseded(stream) ==
  LET sid == closeListeners[stream] IN
  sid \in DOMAIN sseStreams /\ sseStreams[sid] # stream
\* C24 as stated: the stream map holds, for a session, the response object
\* of its latest GET; and the 'close' of an older response object that a
\* later GET superseded leaves the newer reference in place and the session
\* registered.
C24_Original ==
  [][/\ \A req \in Requests :
          (req.method = "GET" /\ req.sid \in transports /\ HandledAs(req)
           /\ last'.at = "handleRequest")
            => sseStreams'[req.sid] = opened'
     /\ \A stream \in StreamIds :
          (ClosedStream(stream) /\ Superseded(stream))
            => UNCHANGED <<sseStreams, transports, mcpServers>>]_vars

\* C25: a run of the timer destroys no session whose stamp is at most the
\* TTL old when the timer fires: what it prunes is older than the TTL, and
\* a registered session with a younger stamp is still registered after it.
C25_YoungSessionsSurvive ==
  [][last'.op = "keepalive" =>
       /\ \A id \in last'.pruned :
            /\ id \in DOMAIN sessionActivity
            /\ now - sessionActivity[id] > 5 * 60 * 1000
       /\ \A id \in DOMAIN sessionActivity :
            now - sessionActivity[id] <= 5 * 60 * 1000 =>
              /\ id \notin last'.pruned
              /\ (id \in transports <=> id \in transports')
              /\ (id \in mcpServers <=> id \in mcpServers')]_vars
\* The timer has just run over a session whose stamp was exactly the TTL
\* old, and the session is still registered.
C25_Witness ==
  /\ last.op = "keepalive"
  /\ last.pruned = {}
  /\ \E id \in transports :
       /\ id \in DOMAIN sessionActivity
       /\ now - sessionActivity[id] = sessionTtlMs

\* C26: a keepalive write that does not throw changes nothing in the four
\* maps: the write loop leaves the entries of such a session as they are
\* (its stamp is not refreshed), and a run of the timer in which no write
\* throws and nothing is idle leaves the four maps unchanged.
C26_SuccessfulWriteChangesNothing ==
  [][last'.op = "keepalive" =>
       LET written == keepaliveWrites(Registry, last'.threw) IN
       /\ written.transports = transports
       /\ written.mcpServers = mcpServers
       /\ \A id \in DOMAIN sseStreams \ last'.threw :
            /\ id \in DOMAIN written.sseStreams
            /\ written.sseStreams[id] = sseStreams[id]
            /\ (id \in DOMAIN sessionActivity <=> id \in DOMAIN written.sessionActivity)
            /\ id \in DOMAIN sessionActivity
                 => written.sessionActivity[id] = sessionActivity[id]
       /\ (last'.threw = {} /\ last'.pruned = {}) => UNCHANGED RegistryVars]_vars
\* The timer has just written to the stream of a session whose stamp is
\* older than the clock, and the stamp is what it was.
C26_Witness ==
  /\ last.op = "keepalive"
  /\ last.threw = {}
  /\ last.bp = {}
  /\ \E id \in DOMAIN sseStreams :
       /\ id \in DOMAIN sessionActivity
       /\ sessionActivity[id] < now

\* C27: a request answered by the gate (401) or with SessionRequired or
\* InvalidSession leaves the four maps as they were; so a POST the gate
\* rejects does not refresh the stamp of the session it names.
C27_RejectedRequestChangesNothing ==
  [][(/\ last'.op \in HttpMethods
      /\ \/ last'.at = "gate"
         \/ last'.res \in {MissingAuthorization, InvalidAuthorizationFormat,
                           EmptyAccessToken, SessionRequired, InvalidSession})
       => UNCHANGED RegistryVars]_vars
\* The gate has just rejected a POST for a registered session whose stamp
\* is older than the clock.
C27_Witness ==
  /\ last.op = "POST"
  /\ last.at = "gate"
  /\ last.res = MissingAuthorization
  /\ last.sid \in transports
  /\ last.sid \in DOMAIN sessionActivity
  /\ sessionActivity[last.sid] < now
\* ------------------------------------- claims about the gate and resolver
\* C28: over the same header store the gate and the resolver agree: the
\* gate passes an examined request exactly when the resolver's credential
\* steps yield a token, the token the gate attaches is the resolver's token,
\* and the endpoint the gate attaches is the resolver's fast-path value
\* where that value is usable and undefined where it is not.
C28_GateAgreesWithResolver ==
  Examined =>
    LET token == bearerToken(request.headers)
        endpoint == fastPath(request.headers)
    IN /\ PassedGate <=> token # <<>>
       /\ PassedGate =>
            /\ salesforceAuth.attached
            /\ salesforceAuth.accessToken = token
            /\ Falsy(endpoint) <=> salesforceAuth.instanceUrl = HUndef
            /\ ~Falsy(endpoint) => salesforceAuth.instanceUrl = endpoint
\* A request whose two headers are lists passed the gate: both sides take
\* the first credential, and both find the endpoint (an empty first
\* element) unusable.
C28_Witness ==
  /\ stage.at = "handler"
  /\ DOMAIN request.headers = HeaderNames
  /\ request.headers["authorization"].t = "array"
  /\ request.headers["x-salesforce-instance-url"] = HArr(<< <<>>, <<"u">> >>)
  /\ bearerToken(request.headers) = Token
  /\ salesforceAuth.accessToken = Token
  /\ salesforceAuth.instanceUrl = HUndef
====
